---- MODULE Spec2Model ----
(***************************************************************************)
(* A model of bud's src/config.c: configuration loading, initialisation    *)
(* of the TLS context table, NPN encoding, certificate-chain loading,      *)
(* context selection and the SNI hook.                                     *)
(***************************************************************************)
EXTENDS Integers, Sequences, FiniteSets, TLC

VARIABLES
    file,               \* the JSON document behind the --config path
    is_daemon,          \* local is_daemon of bud_config_cli_load
    is_worker,          \* local is_worker of bud_config_cli_load
    load_calls,         \* number of bud_config_load calls made so far
    optind,             \* getopt's index of the next argv element
    pc,                 \* position inside bud_config_cli_load / bud_config_init
    config,             \* the bud_config_t under construction (NULL or <<record>>)
    err,                \* *err of bud_config_cli_load / err of bud_config_init
    ret,                \* value returned by bud_config_cli_load / bud_config_load
    i,                  \* loop index i of bud_config_init
    fail_step,          \* the step of bud_config_init that failed ("none" if none)
    json_frees,         \* calls of json_value_free on the parsed document
    config_frees,       \* calls of free on the bud_config_t
    kBudSSLClientIndex, \* the global ex-data index (-1 until allocated)
    kBudSSLSNIIndex,    \* the global ex-data index of the override slot
    refs,               \* reference counts of the objects each context made
    wild_frees,         \* calls of free() on a pointer malloc never returned
    ocsp_errors,        \* contexts for which OCSP_cert_to_id returned NULL
    servername,         \* SSL_get_servername of the session (NULL or <<name>>)
    sni_slot,           \* SSL_get_ex_data(s, kBudSSLSNIIndex) (NULL or <<context>>)
    ssl_ctx,            \* the SSL_CTX the session currently uses
    hook_ret,           \* last return value of bud_config_select_sni_context
    hook_calls,         \* number of times the SNI hook ran for the session
    lookups,            \* number of bud_config_select_context calls made by the hook
    selected,           \* last result of bud_config_select_context (NULL or <<index>>)
    npn,                \* the npn argument of bud_config_encode_npn
    npn_line,           \* the returned buffer
    npn_line_len,       \* *len
    npn_err,            \* *err of bud_config_encode_npn
    ocsp_ctx,           \* the context of the last bud_context_get_ocsp_id call
    ocsp_key,           \* the pointer that call returned
    ocsp_size,          \* *size after that call (NULL while never written)
    ocsp_calls,         \* calls of bud_context_get_ocsp_id made, per context
    ocsp_encodes,       \* DER and base64 encodings made, per context
    settings_file,      \* the settings the configuration file gives
    settings            \* the settings of the config bud_config_load returned

vars == <<file, is_daemon, is_worker, load_calls, optind, pc, config, err, ret,
          i, fail_step, json_frees, config_frees, kBudSSLClientIndex,
          kBudSSLSNIIndex, refs, wild_frees, ocsp_errors, servername, sni_slot,
          ssl_ctx, hook_ret, hook_calls, lookups, selected, npn, npn_line,
          npn_line_len, npn_err, ocsp_ctx, ocsp_key, ocsp_size, ocsp_calls,
          ocsp_encodes, settings_file, settings>>

cliVars == <<file, is_daemon, is_worker, load_calls, optind, pc, config, err, ret,
             i, fail_step, json_frees, config_frees, kBudSSLClientIndex,
             kBudSSLSNIIndex, refs, wild_frees, ocsp_errors>>
sniVars == <<servername, sni_slot, ssl_ctx, hook_ret, hook_calls, lookups,
             selected>>
npnVars == <<npn, npn_line, npn_line_len, npn_err>>
ocspVars == <<ocsp_ctx, ocsp_key, ocsp_size, ocsp_calls, ocsp_encodes>>
defaultsVars == <<settings_file, settings>>

----------------------------------------------------------------------------
(* Bounds of the model *)

MaxContexts == 2
MaxHookCalls == 2

----------------------------------------------------------------------------
(* C values *)

\* A pointer is either NULL or <<target>>.
NULL == <<>>
Some(x) == <<x>>

SSL_TLSEXT_ERR_OK == "SSL_TLSEXT_ERR_OK"

\* Characters are ASCII codes: 'A' = 65, 'B' = 66, 'a' = 97, 'b' = 98.
tolower(c) == IF c \in 65..90 THEN c + 32 ELSE c

\* The i-th byte of the C string s (1-based); the terminating NUL after the end.
CharAt(s, k) == IF k <= Len(s) THEN s[k] ELSE 0

RECURSIVE strncasecmp_from(_, _, _, _)
strncasecmp_from(s1, s2, n, k) ==
    IF k > n THEN 0
    ELSE LET c1 == tolower(CharAt(s1, k))
             c2 == tolower(CharAt(s2, k))
         IN IF c1 # c2 THEN c1 - c2
            ELSE IF c1 = 0 THEN 0
            ELSE strncasecmp_from(s1, s2, n, k + 1)

\* strncasecmp(3): compares at most n bytes, ignoring case, stopping at NUL.
strncasecmp(s1, s2, n) == strncasecmp_from(s1, s2, n, 1)

\* strlen of a possibly NULL servername as line 305 computes it.
servername_len_of(p) == IF p = NULL THEN 0 ELSE Len(p[1])

\* The bytes behind a char pointer (never read when the pointer is NULL and n = 0).
Str(p) == IF p = NULL THEN <<>> ELSE p[1]

\* The parts of the state a specification leaves untouched.
IdleCli ==
    /\ file = NULL
    /\ is_daemon = FALSE
    /\ is_worker = FALSE
    /\ load_calls = 0
    /\ optind = 1
    /\ err = "ok"
    /\ ret = NULL
    /\ i = 0
    /\ fail_step = "none"
    /\ json_frees = 0
    /\ config_frees = 0
    /\ kBudSSLClientIndex = -1
    /\ kBudSSLSNIIndex = -1
    /\ refs = <<>>
    /\ wild_frees = 0
    /\ ocsp_errors = {}

\* No bud_context_get_ocsp_id call has been made.
IdleOcsp ==
    /\ ocsp_ctx = NULL
    /\ ocsp_key = NULL
    /\ ocsp_size = NULL
    /\ ocsp_calls = <<>>
    /\ ocsp_encodes = <<>>

\* No settings are being read.
IdleDefaults ==
    /\ settings_file = NULL
    /\ settings = NULL

IdleNpn ==
    /\ npn = NULL
    /\ npn_line = NULL
    /\ npn_line_len = 0
    /\ npn_err = "ok"

IdleSni ==
    /\ servername = NULL
    /\ sni_slot = NULL
    /\ ssl_ctx = NULL
    /\ hook_ret = NULL
    /\ hook_calls = 0
    /\ lookups = 0
    /\ selected = NULL

----------------------------------------------------------------------------
(* bud_config_select_context, src/config.c:942-962 *)

RECURSIVE select_context_from(_, _, _, _)
\* The mutant of the loop body: a name mismatch returns the entry anyway.
select_context_nocmp(cfg, name, name_len, k) ==
    IF k >= cfg.context_count THEN 0
    ELSE LET ctx == cfg.contexts[k + 1]
         IN IF name_len # ctx.servername_len
            THEN select_context_from(cfg, name, name_len, k + 1)
            ELSE k + 1

\* The mutant of line 956: a name mismatch continues the scan.
select_context_continue(cfg, name, name_len, k) ==
    IF k >= cfg.context_count THEN 0
    ELSE LET ctx == cfg.contexts[k + 1]
         IN IF name_len # ctx.servername_len
            THEN select_context_from(cfg, name, name_len, k + 1)
            ELSE IF strncasecmp(name, Str(ctx.servername), ctx.servername_len) # 0
            THEN select_context_from(cfg, name, name_len, k + 1)
            ELSE k + 1

\* One pass of the for loop starting at i = k; the result is the index of the
\* returned context in config->contexts.
select_context_from(cfg, name, name_len, k) ==
    IF k >= cfg.context_count THEN 0
    ELSE LET ctx == cfg.contexts[k + 1]
         IN IF name_len # ctx.servername_len
            THEN select_context_from(cfg, name, name_len, k + 1)
            ELSE IF strncasecmp(name, Str(ctx.servername), ctx.servername_len) # 0
            THEN 0
            ELSE k + 1

bud_config_select_context(cfg, name, name_len) ==
    select_context_from(cfg, name, name_len, 0)

----------------------------------------------------------------------------
(* bud_config_select_sni_context, src/config.c:966-989 *)

\* The mutant of the hook: the override slot is ignored.
sni_context_ignoring_slot(cfg, name, slot) ==
    LET k == bud_config_select_context(cfg, name, Len(name))
    IN [ctx |-> Some(cfg.contexts[k]), selected |-> Some(k)]

\* Lines 979-983: the context the hook adopts for a present servername, and
\* the result of the local table lookup when one was made.
sni_context(cfg, name, slot) ==
    IF slot # NULL
    THEN [ctx |-> slot, selected |-> NULL]
    ELSE LET k == bud_config_select_context(cfg, name, Len(name))
         IN [ctx |-> Some(cfg.contexts[k]), selected |-> Some(k)]

\* The mutant of the early return: a missing servername is looked up as "".
sni_servername_unchecked(name) == FALSE

\* Line 975: servername == NULL.
sni_no_servername(name) == name = NULL

bud_config_select_sni_context ==
    /\ pc = "handshake"
    /\ hook_calls < MaxHookCalls
    /\ hook_calls' = hook_calls + 1
    /\ hook_ret' = Some(SSL_TLSEXT_ERR_OK)
    /\ IF sni_no_servername(servername)
       THEN UNCHANGED <<ssl_ctx, lookups, selected>>
       ELSE LET r == sni_context(config[1], Str(servername), sni_slot)
            IN /\ lookups' = IF r.selected # NULL THEN lookups + 1 ELSE lookups
               /\ selected' = IF r.selected # NULL THEN r.selected ELSE selected
               /\ ssl_ctx' = IF r.ctx # NULL THEN r.ctx[1].ctx ELSE ssl_ctx
    /\ UNCHANGED <<servername, sni_slot>>
    /\ UNCHANGED cliVars
    /\ UNCHANGED npnVars
    /\ UNCHANGED ocspVars
    /\ UNCHANGED defaultsVars

----------------------------------------------------------------------------
(* bud_config_encode_npn, src/config.c:540-590 *)

\* Number of values of the char that line 580 stores a token length into.
CharValues == 256

\* Calloc'ed / malloc'ed memory and what an uninitialised pointer may hold.
HeapBuffer(bytes) == Some([kind |-> "heap", bytes |-> bytes])
WildPointer == Some([kind |-> "wild", bytes |-> <<>>])
UninitPointers == {NULL, WildPointer}

\* Lines 562-565: npn_line_len, the sum of 1 + strlen over the array.
RECURSIVE npn_storage(_, _)
npn_storage(tokens, k) ==
    IF k > Len(tokens) THEN 0
    ELSE 1 + Len(tokens[k]) + npn_storage(tokens, k + 1)

\* Lines 577-582: the bytes one array element adds to npn_line; the length is
\* stored into a char, so only its low eight bits are kept.
npn_item(token) == <<Len(token) % CharValues>> \o token

\* Lines 576-583: the fill loop from element k on.
RECURSIVE npn_fill(_, _)
npn_fill(tokens, k) ==
    IF k > Len(tokens) THEN <<>>
    ELSE npn_item(tokens[k]) \o npn_fill(tokens, k + 1)

\* The whole function: the returned pointer, *len and *err. malloc_ok is the
\* outcome of malloc; uninit is the indeterminate value of the local npn_line,
\* which is returned unassigned when the array is empty (lines 567-589).
encode_npn(cfg, npn_arg, old_len, malloc_ok, uninit) ==
    LET arr == IF npn_arg = NULL THEN cfg.frontend.npn ELSE npn_arg
    IN IF arr = NULL
       THEN [line |-> NULL, len |-> 0, err |-> "ok"]
       ELSE LET line_len == npn_storage(arr[1], 1)
            IN IF line_len # 0 /\ ~malloc_ok
               THEN [line |-> NULL, len |-> old_len, err |-> "kBudErrNoMem"]
               ELSE [line |-> IF line_len # 0
                              THEN HeapBuffer(npn_fill(arr[1], 1))
                              ELSE uninit,
                     len |-> line_len,
                     err |-> "ok"]

bud_config_encode_npn ==
    /\ pc = "encode_npn"
    /\ \E malloc_ok \in BOOLEAN, uninit \in UninitPointers :
          LET r == encode_npn(config[1], npn, npn_line_len, malloc_ok, uninit)
          IN /\ npn_line' = r.line
             /\ npn_line_len' = r.len
             /\ npn_err' = r.err
    /\ pc' = "encode_npn_done"
    /\ UNCHANGED <<file, is_daemon, is_worker, load_calls, optind, config, err,
                   ret, i, fail_step, json_frees, config_frees,
                   kBudSSLClientIndex,
                   kBudSSLSNIIndex, refs, wild_frees, ocsp_errors, npn>>
    /\ UNCHANGED sniVars
    /\ UNCHANGED ocspVars
    /\ UNCHANGED defaultsVars

----------------------------------------------------------------------------
(* The NPN specification: one call of bud_config_encode_npn *)

MaxNpnCount == 2

\* Protocol names: "", "h", "h2" and a name of 256 bytes.
LongToken == [k \in 1..CharValues |-> 120]
Tokens == {<<>>, <<104>>, <<104, 50>>, LongToken}

\* A JSON array of strings (bud_config_verify_npn has passed), or no array.
NpnArrays == {NULL} \cup
             {Some(a) : a \in UNION {[1..n -> Tokens] : n \in 0..MaxNpnCount}}

FrontendNpnArrays == {NULL, Some(<<>>), Some(<<<<104, 50>>, <<104>>>>)}

InitNpn ==
    /\ pc = "encode_npn"
    /\ \E f \in FrontendNpnArrays : config = Some([frontend |-> [npn |-> f]])
    /\ npn \in NpnArrays
    /\ npn_line = NULL
    /\ npn_line_len = 0
    /\ npn_err = "ok"
    /\ IdleCli
    /\ IdleSni
    /\ IdleOcsp
    /\ IdleDefaults

NextNpn == bud_config_encode_npn

SpecNpn == InitNpn /\ [][NextNpn]_vars

----------------------------------------------------------------------------
(* The session specification: a worker's session meets the SNI hook *)

\* Server names: "", "a", "A", "b", "ab", "AB", "ba".
Names == {<<>>, <<97>>, <<65>>, <<98>>, <<97, 98>>, <<65, 66>>, <<98, 97>>}

\* The servername field of a contexts[] entry: absent (NULL) or a string
\* (bud_config_load, lines 304-305, stores whatever the file gives).
ConfiguredNames == {NULL} \cup {Some(n) : n \in Names}

\* A table as bud_config_init leaves it: contexts[k].ctx is the k-th SSL_CTX.
SniTable(names) ==
    [context_count |-> Len(names),
     contexts |-> [k \in 0..Len(names) |->
                    [servername |-> IF k = 0 THEN NULL ELSE names[k],
                     servername_len |-> IF k = 0 THEN 0
                                       ELSE servername_len_of(names[k]),
                     ctx |-> Some([id |-> k])]]]

NameLists == UNION {[1..n -> ConfiguredNames] : n \in 0..MaxContexts}

\* Contexts materialised by the asynchronous SNI resolver.
OverrideContexts == {[ctx |-> Some([id |-> -1])], [ctx |-> Some([id |-> -2])]}

InitSni ==
    /\ pc = "handshake"
    /\ \E names \in NameLists : config = Some(SniTable(names))
    /\ servername \in {NULL} \cup {Some(n) : n \in Names}
    /\ sni_slot \in {NULL} \cup {Some(c) : c \in OverrideContexts}
    /\ ssl_ctx = config[1].contexts[0].ctx
    /\ hook_ret = NULL
    /\ hook_calls = 0
    /\ lookups = 0
    /\ selected = NULL
    /\ IdleCli
    /\ IdleNpn
    /\ IdleOcsp
    /\ IdleDefaults

NextSni == bud_config_select_sni_context

SpecSni == InitSni /\ [][NextSni]_vars

----------------------------------------------------------------------------
(* bud_error_t *)

bud_ok == "ok"
bud_is_ok(e) == e = "ok"

----------------------------------------------------------------------------
(* bud_config_verify_npn, src/config.c:152-167 *)

JSONString(t) == [type |-> "JSONString", string |-> t]
JSONNumber == [type |-> "JSONNumber", string |-> <<>>]

\* The mutant: the element types are not looked at.
verify_npn_unchecked(arr) == bud_ok

bud_config_verify_npn(arr) ==
    IF arr = NULL THEN bud_ok
    ELSE IF \A k \in 1..Len(arr[1]) : arr[1][k].type = "JSONString"
    THEN bud_ok
    ELSE "kBudErrNPNNonString"

----------------------------------------------------------------------------
(* bud_config_load, src/config.c:170-331 *)

\* A bud_context_t as calloc leaves it.
ZeroContext ==
    [servername |-> NULL, servername_len |-> 0, npn |-> NULL,
     ctx |-> NULL, cert |-> NULL, issuer |-> NULL, ocsp_id |-> NULL,
     ocsp_der_id |-> NULL, npn_line |-> NULL, npn_line_len |-> 0,
     cert_file |-> NULL, key_file |-> NULL, ciphers |-> NULL, ecdh |-> NULL,
     ocsp_der_id_len |-> 0]

\* json_array_get_string over a verified array.
npn_strings(arr) ==
    IF arr = NULL THEN NULL
    ELSE Some([k \in 1..Len(arr[1]) |-> arr[1][k].string])

\* Lines 297-310: contexts[k] filled from the k-th element of "contexts".
load_context(obj) ==
    [ZeroContext EXCEPT !.servername = obj.servername,
                        !.servername_len = servername_len_of(obj.servername),
                        !.npn = npn_strings(obj.npn)]

\* Lines 295-315: the error that ends the loop at or after element k, if any.
RECURSIVE load_contexts_err(_, _)
load_contexts_err(ctxs, k) ==
    IF k > Len(ctxs) THEN bud_ok
    ELSE IF ~ctxs[k].object THEN "kBudErrJSONNonObjectCtx"
    ELSE IF ~bud_is_ok(bud_config_verify_npn(ctxs[k].npn))
    THEN bud_config_verify_npn(ctxs[k].npn)
    ELSE load_contexts_err(ctxs, k + 1)

\* The whole function on the document doc, calloc succeeding or not: the
\* returned config, *err, and how often the document and the config were freed.
load(doc, calloc_ok) ==
    LET failed(e, jf, cf) ==
            [config |-> NULL, err |-> e, json_frees |-> jf, config_frees |-> cf]
        ctxs == IF doc.contexts = NULL THEN <<>> ELSE doc.contexts[1]
        context_count == Len(ctxs)
        frontend_err == IF doc.frontend = NULL THEN bud_ok
                        ELSE bud_config_verify_npn(doc.frontend[1].npn)
    IN IF ~doc.parsed THEN failed("kBudErrJSONParse", 0, 0)
       ELSE IF ~doc.root_object THEN failed("kBudErrJSONNonObjectRoot", 1, 0)
       ELSE IF ~calloc_ok THEN failed("kBudErrNoMem", 1, 0)
       ELSE IF ~bud_is_ok(frontend_err) THEN failed(frontend_err, 1, 1)
       ELSE IF ~bud_is_ok(load_contexts_err(ctxs, 1))
       THEN failed(load_contexts_err(ctxs, 1), 1, 1)
       ELSE [config |-> Some(
                 [json |-> "parsed",
                  is_daemon |-> FALSE,
                  is_worker |-> FALSE,
                  frontend |-> [npn |-> IF doc.frontend = NULL THEN NULL
                                        ELSE npn_strings(doc.frontend[1].npn)],
                  context_count |-> context_count,
                  contexts |-> [k \in 0..context_count |->
                                  IF k = 0 THEN ZeroContext
                                  ELSE load_context(ctxs[k])]]),
             err |-> bud_ok, json_frees |-> 0, config_frees |-> 0]

----------------------------------------------------------------------------
(* The option loop of bud_config_cli_load, src/config.c:76-121 *)

\* The longest command line: argv[0] and MaxArgc - 1 further elements.
MaxArgc == 5

\* case 'c', lines 87-98 (the model reads at most one --config).
cli_option_config ==
    /\ pc = "getopt"
    /\ optind + 2 <= MaxArgc
    /\ load_calls < 1
    /\ config = NULL
    /\ \E calloc_ok \in BOOLEAN :
          LET r == load(file[1], calloc_ok)
          IN /\ err' = r.err
             /\ json_frees' = r.json_frees
             /\ config_frees' = r.config_frees
             /\ IF r.config = NULL
                THEN /\ config' = NULL
                     /\ pc' = IF bud_is_ok(r.err) THEN "abort" ELSE "options_done"
                ELSE /\ config' = Some([r.config[1] EXCEPT
                                          !.is_daemon = is_daemon,
                                          !.is_worker = is_worker])
                     /\ pc' = "getopt"
    /\ load_calls' = load_calls + 1
    /\ optind' = optind + 2
    /\ UNCHANGED <<file, is_daemon, is_worker, ret, i, fail_step,
                   kBudSSLClientIndex,
                   kBudSSLSNIIndex, refs, wild_frees, ocsp_errors>>
    /\ UNCHANGED sniVars
    /\ UNCHANGED ocspVars
    /\ UNCHANGED defaultsVars
    /\ UNCHANGED npnVars

\* case 'd', lines 100-105.
cli_option_daemon ==
    /\ pc = "getopt"
    /\ optind + 1 <= MaxArgc
    /\ is_daemon' = TRUE
    /\ config' = IF config # NULL
                 THEN Some([config[1] EXCEPT !.is_daemon = TRUE])
                 ELSE config
    /\ optind' = optind + 1
    /\ UNCHANGED <<file, is_worker, load_calls, pc, err, ret, i, fail_step,
                   json_frees, config_frees, kBudSSLClientIndex,
                   kBudSSLSNIIndex, refs, wild_frees, ocsp_errors>>
    /\ UNCHANGED sniVars
    /\ UNCHANGED ocspVars
    /\ UNCHANGED defaultsVars
    /\ UNCHANGED npnVars

\* case 1000, lines 106-110.
cli_option_worker ==
    /\ pc = "getopt"
    /\ optind + 1 <= MaxArgc
    /\ is_worker' = TRUE
    /\ config' = IF config # NULL
                 THEN Some([config[1] EXCEPT !.is_worker = TRUE])
                 ELSE config
    /\ optind' = optind + 1
    /\ UNCHANGED <<file, is_daemon, load_calls, pc, err, ret, i, fail_step,
                   json_frees, config_frees, kBudSSLClientIndex,
                   kBudSSLSNIIndex, refs, wild_frees, ocsp_errors>>
    /\ UNCHANGED sniVars
    /\ UNCHANGED ocspVars
    /\ UNCHANGED defaultsVars
    /\ UNCHANGED npnVars

\* default, lines 115-121: getopt_long returns -1 and the loop ends.
cli_options_end ==
    /\ pc = "getopt"
    /\ pc' = "options_done"
    /\ UNCHANGED <<file, is_daemon, is_worker, load_calls, optind, config, err, ret, i,
                   fail_step, json_frees, config_frees, kBudSSLClientIndex,
                   kBudSSLSNIIndex, refs, wild_frees, ocsp_errors>>
    /\ UNCHANGED sniVars
    /\ UNCHANGED ocspVars
    /\ UNCHANGED defaultsVars
    /\ UNCHANGED npnVars

----------------------------------------------------------------------------
(* The load specification: the option loop over a configuration file *)

\* Values of "servername" in a contexts[] element: absent, "", "a", "b".
FileServernames == {NULL, Some(<<>>), Some(<<97>>), Some(<<98>>)}

\* Values of an "npn" member: absent, ["h2"], ["h", 1].
FileNpnArrays ==
    {NULL, Some(<<JSONString(<<104, 50>>)>>),
     Some(<<JSONString(<<104>>), JSONNumber>>)}

\* Elements of "contexts": a non-object value, or an object.
FileContexts ==
    {[object |-> FALSE, servername |-> NULL, npn |-> NULL]} \cup
    [object : {TRUE}, servername : FileServernames, npn : FileNpnArrays]

FileFrontends == {NULL} \cup {Some([npn |-> a]) : a \in FileNpnArrays}

UnparsableFile ==
    [parsed |-> FALSE, root_object |-> FALSE, frontend |-> NULL, contexts |-> NULL]
NonObjectFile ==
    [parsed |-> TRUE, root_object |-> FALSE, frontend |-> NULL, contexts |-> NULL]

Files ==
    {UnparsableFile, NonObjectFile} \cup
    [parsed : {TRUE}, root_object : {TRUE}, frontend : FileFrontends,
     contexts : {NULL} \cup
                {Some(c) : c \in UNION {[1..n -> FileContexts] :
                                           n \in 0..MaxContexts}}]

InitLoad ==
    /\ pc = "getopt"
    /\ file \in {Some(f) : f \in Files}
    /\ is_daemon = FALSE
    /\ is_worker = FALSE
    /\ load_calls = 0
    /\ optind = 1
    /\ config = NULL
    /\ err = bud_ok
    /\ ret = NULL
    /\ i = 0
    /\ fail_step = "none"
    /\ json_frees = 0
    /\ config_frees = 0
    /\ kBudSSLClientIndex = -1
    /\ kBudSSLSNIIndex = -1
    /\ refs = <<>>
    /\ wild_frees = 0
    /\ ocsp_errors = {}
    /\ IdleSni
    /\ IdleOcsp
    /\ IdleDefaults
    /\ IdleNpn

NextLoad ==
    \/ cli_option_config
    \/ cli_option_daemon
    \/ cli_option_worker
    \/ cli_options_end

SpecLoad == InitLoad /\ [][NextLoad]_vars

----------------------------------------------------------------------------
(* Objects a context owns, with their reference counts *)

\* A non-NULL pointer to a library object (SSL_CTX, X509, OCSP_CERTID, ...).
Object(kind) == Some([kind |-> kind])

\* The leaf certificate read from a file; aia: it carries an Authority
\* Information Access extension that names an OCSP responder.
Certificate(path, aia) == Some([kind |-> "X509", file |-> path, aia |-> aia])

\* No object of the context has been created yet.
ZeroRefs ==
    [ssl_ctx |-> 0, cert |-> 0, issuer |-> 0, ocsp_id |-> 0, ocsp_der_id |-> 0,
     npn_line |-> 0]

\* SSL_CTX_free, line 381: drops the handle and, with it, the references the
\* handle holds on the leaf certificate and on the chain's issuer certificate.
SSL_CTX_free(c, rc) ==
    IF c.ctx = NULL THEN rc
    ELSE [rc EXCEPT !.ssl_ctx = @ - 1,
                    !.cert = IF c.ctx[1].cert THEN @ - 1 ELSE @,
                    !.issuer = IF c.ctx[1].extra_issuer THEN @ - 1 ELSE @]

\* bud_context_free, lines 380-397: the context and its reference counts
\* afterwards, and the number of invalid pointers handed to free().
bud_context_free(c, rc) ==
    LET rc1 == SSL_CTX_free(c, rc)
    IN [c |-> [c EXCEPT !.ctx = NULL, !.cert = NULL, !.issuer = NULL,
                        !.npn_line = NULL, !.ocsp_id = NULL,
                        !.ocsp_der_id = NULL],
        rc |-> [rc1 EXCEPT
                  !.cert = IF c.cert # NULL THEN @ - 1 ELSE @,
                  !.issuer = IF c.issuer # NULL THEN @ - 1 ELSE @,
                  !.ocsp_id = IF c.ocsp_id # NULL THEN @ - 1 ELSE @,
                  !.ocsp_der_id = IF c.ocsp_der_id # NULL THEN @ - 1 ELSE @,
                  !.npn_line = IF c.npn_line # NULL /\ c.npn_line[1].kind = "heap"
                               THEN @ - 1 ELSE @],
        wild |-> IF c.npn_line = WildPointer THEN 1 ELSE 0]

----------------------------------------------------------------------------
(* bud_config_new_ssl_ctx, src/config.c:594-702 *)

\* Lines 623-630: the curve name handed to OBJ_sn2nid, if any.
ssl_ctx_ecdh(cfg, c) ==
    IF c.ecdh # NULL THEN c.ecdh ELSE cfg.frontend.ecdh

\* Lines 649-652: the cipher list handed to SSL_CTX_set_cipher_list; NULL
\* when the call is not made and the library's list stays.
ssl_ctx_ciphers(cfg, c) ==
    IF c.ciphers # NULL THEN c.ciphers ELSE cfg.frontend.ciphers

\* in: the outcomes of SSL_CTX_new, OBJ_sn2nid, EC_KEY_new_by_curve_name and
\* of the malloc in bud_config_encode_npn, and the value of its unassigned
\* local. The result: the context, its reference counts and the error.
bud_config_new_ssl_ctx(cfg, c, rc, in) ==
    IF ~in.ssl_ctx_new_ok
    THEN [c |-> c, rc |-> rc, err |-> "kBudErrNoMem"]
    ELSE IF ssl_ctx_ecdh(cfg, c) # NULL /\ ~in.ecdh_known
    THEN [c |-> c, rc |-> rc, err |-> "kBudErrECDHNotFound"]
    ELSE IF ssl_ctx_ecdh(cfg, c) # NULL /\ ~in.ec_key_ok
    THEN [c |-> c, rc |-> rc, err |-> "kBudErrNoMem"]
    ELSE LET r == encode_npn(cfg, c.npn, c.npn_line_len, in.malloc_ok, in.uninit)
             c1 == [c EXCEPT !.npn_line = r.line, !.npn_line_len = r.len]
             rc1 == [rc EXCEPT !.npn_line =
                        IF r.line # NULL /\ r.line[1].kind = "heap"
                        THEN @ + 1 ELSE @]
         IN IF ~bud_is_ok(r.err)
            THEN [c |-> c1, rc |-> rc1, err |-> r.err]
            ELSE [c |-> [c1 EXCEPT !.ctx = Some(
                           [servername_cb |-> cfg.context_count # 0,
                            next_protos_advertised_cb |-> r.line # NULL,
                            status_cb |-> TRUE,
                            ecdh |-> ssl_ctx_ecdh(cfg, c),
                            ciphers |-> ssl_ctx_ciphers(cfg, c),
                            cert |-> FALSE,
                            key |-> NULL,
                            extra_issuer |-> FALSE])],
                  rc |-> [rc1 EXCEPT !.ssl_ctx = @ + 1],
                  err |-> bud_ok]

\* A call that is not reached is held at success, and the unassigned local at
\* NULL when it is not read.
NewSslCtxInputs ==
    {in \in [ssl_ctx_new_ok : BOOLEAN, ecdh_known : BOOLEAN,
             ec_key_ok : BOOLEAN, malloc_ok : BOOLEAN, uninit : UninitPointers] :
        /\ ~in.ssl_ctx_new_ok => in.ecdh_known
        /\ ~in.ecdh_known => in.ec_key_ok
        /\ ~(in.ssl_ctx_new_ok /\ in.ecdh_known /\ in.ec_key_ok) =>
               in.malloc_ok /\ in.uninit = NULL}

----------------------------------------------------------------------------
(* bud_context_use_certificate_chain, src/config.c:1044-1150 *)

\* Lines 1082-1101: the loop over the CA certificates that follow the leaf,
\* from the k-th on. Each has add_ok (SSL_CTX_add_extra_chain_cert) and issues
\* (X509_check_issued(ca, x) == X509_V_OK). st: the context, its reference
\* counts and ret.
RECURSIVE chain_loop(_, _, _)
chain_loop(st, chain, k) ==
    IF k > Len(chain) THEN [st EXCEPT !.stopped = FALSE]
    ELSE IF ~chain[k].add_ok
    THEN [st EXCEPT !.ret = 0, !.stopped = TRUE]
    ELSE IF st.c.issuer # NULL \/ ~chain[k].issues
    THEN chain_loop(st, chain, k + 1)
    ELSE chain_loop(
             [st EXCEPT !.c.issuer = Object("X509"),
                        !.c.ctx = Some([st.c.ctx[1] EXCEPT !.extra_issuer = TRUE]),
                        !.rc.issuer = @ + 1],
             chain, k + 1)

\* Lines 1136-1139: OCSP_cert_to_id returned NULL.
ocsp_id_failure(st) == [st EXCEPT !.c.issuer = NULL]

\* Lines 1114-1150, from the label end on.
chain_end(st, in) ==
    IF st.ret # 0
    THEN LET found ==
                 IF st.c.issuer = NULL
                 THEN IF ~in.store_init_ok
                      THEN [st EXCEPT !.ret = 0, !.stopped = TRUE]
                      ELSE [st EXCEPT
                              !.c.issuer = IF in.store_issuer = 1
                                           THEN Object("X509") ELSE NULL,
                              !.rc.issuer = IF in.store_issuer = 1
                                            THEN @ + 1 ELSE @,
                              !.ret = IF in.store_issuer < 0 THEN 0 ELSE 1,
                              !.stopped = FALSE]
                 ELSE [st EXCEPT !.rc.issuer = @ + 1, !.stopped = FALSE]
         IN IF found.stopped \/ found.c.issuer = NULL THEN found
            ELSE IF in.ocsp_ok
            THEN [found EXCEPT !.c.ocsp_id = Object("OCSP_CERTID"),
                               !.rc.ocsp_id = @ + 1]
            ELSE [ocsp_id_failure(found) EXCEPT !.ocsp_error = TRUE]
    ELSE IF st.c.issuer # NULL
    THEN [st EXCEPT !.rc.issuer = @ - 1]
    ELSE st

\* The whole function. in: the BIO, with the file it reads and what the file
\* and the library calls turn out to be: pem_ok (PEM_read_bio_X509_AUX), aia
\* (the leaf has an
\* AIA extension, which the function does not look at), use_ok
\* (SSL_CTX_use_certificate), err_queue (ERR_peek_error() != 0), chain,
\* eof_clean (the loop ended on PEM_R_NO_START_LINE), store_init_ok
\* (X509_STORE_CTX_init), store_issuer (X509_STORE_CTX_get1_issuer: -1, 0, 1),
\* ocsp_ok (OCSP_cert_to_id).
bud_context_use_certificate_chain(c, rc, in) ==
    LET st0 == [c |-> c, rc |-> rc, ret |-> 0, stopped |-> FALSE,
                ocsp_error |-> FALSE]
    IN IF ~in.pem_ok THEN chain_end(st0, in)
       ELSE LET st1 == [st0 EXCEPT
                          !.c.cert = Certificate(in.file, in.aia),
                          !.c.issuer = NULL,
                          !.c.ctx = Some([c.ctx[1] EXCEPT !.cert = in.use_ok]),
                          !.rc.cert = IF in.use_ok THEN @ + 2 ELSE @ + 1,
                          !.ret = IF in.use_ok /\ ~in.err_queue THEN 1 ELSE 0]
            IN IF st1.ret = 0 THEN chain_end(st1, in)
               ELSE LET st2 == chain_loop(st1, in.chain, 1)
                        st3 == IF ~st2.stopped /\ ~in.eof_clean
                               THEN [st2 EXCEPT !.ret = 0]
                               ELSE st2
                    IN chain_end(st3, in)

ChainCerts == [add_ok : BOOLEAN, issues : BOOLEAN]

MaxChain == 1

\* Whether the chain of a certificate file holds the issuer of the leaf among
\* the certificates the loop of lines 1082-1101 gets to add.
RECURSIVE issuer_in_chain(_, _)
issuer_in_chain(chain, k) ==
    /\ k <= Len(chain)
    /\ chain[k].add_ok
    /\ chain[k].issues \/ issuer_in_chain(chain, k + 1)

\* The inputs the function reads are free; those a path never reads are held
\* at one value: nothing after a failure to read or use the leaf, no CA after
\* one that could not be added, no issuer test after the issuer is found, the
\* end-of-file test only after the loop ends, the store only without an issuer
\* from the chain, OCSP_cert_to_id only with an issuer. No path reads the AIA
\* extension: every leaf that is read carries it.
ChainInputRead(in) ==
    LET ok == in.pem_ok /\ in.use_ok /\ ~in.err_queue
        added == \A k \in 1..Len(in.chain) : in.chain[k].add_ok
        looped == ok /\ added /\ in.eof_clean
        in_chain == issuer_in_chain(in.chain, 1)
        store == looped /\ ~in_chain
    IN /\ in.aia = in.pem_ok
       /\ ~in.pem_ok => in.use_ok /\ ~in.err_queue
       /\ ~ok => in.chain = <<>>
       /\ \A k \in 1..Len(in.chain) :
             /\ ~in.chain[k].add_ok => k = Len(in.chain) /\ ~in.chain[k].issues
             /\ in.chain[k].issues =>
                    \A j \in 1..(k - 1) : ~in.chain[j].issues
       /\ ~(ok /\ added) => in.eof_clean
       /\ ~store => in.store_init_ok /\ in.store_issuer = 0
       /\ ~in.store_init_ok => in.store_issuer = 0
       /\ ~(looped /\ (in_chain \/ (in.store_init_ok /\ in.store_issuer = 1)))
              => in.ocsp_ok

ChainInputs ==
    {in \in [pem_ok : BOOLEAN, aia : BOOLEAN, use_ok : BOOLEAN,
             err_queue : BOOLEAN,
             chain : UNION {[1..n -> ChainCerts] : n \in 0..MaxChain},
             eof_clean : BOOLEAN, store_init_ok : BOOLEAN,
             store_issuer : {-1, 0, 1}, ocsp_ok : BOOLEAN] :
        ChainInputRead(in)}

----------------------------------------------------------------------------
(* bud_config_finalize and bud_config_free, src/config.c:349-377 *)

bud_config_finalize(cfg) ==
    [cfg EXCEPT !.sni.pool = NULL, !.stapling.pool = NULL]

\* The contexts 0..context_count and their reference counts after the loop of
\* lines 365-366, and the invalid pointers it handed to free().
free_contexts(cfg, rcs) ==
    LET f(k) == bud_context_free(cfg.contexts[k], rcs[k])
    IN [contexts |-> [k \in 0..cfg.context_count |-> f(k).c],
        refs |-> [k \in 0..cfg.context_count |-> f(k).rc],
        wild |-> Cardinality({k \in 0..cfg.context_count : f(k).wild = 1})]

\* The config as bud_config_free leaves it just before free(config).
bud_config_free(cfg, rcs) ==
    LET fin == bud_config_finalize(cfg)
        fc == free_contexts(fin, rcs)
    IN [config |-> [fin EXCEPT !.contexts = fc.contexts,
                               !.workers = NULL,
                               !.logger = NULL,
                               !.json = NULL],
        refs |-> fc.refs,
        wild |-> fc.wild]

----------------------------------------------------------------------------
(* The tail of bud_config_cli_load, src/config.c:123-148 *)

\* Lines 123-138: no config, or uv_exepath; when it fails the config is freed
\* and set to NULL, and bud_config_init(NULL) dereferences the null pointer.
cli_exepath ==
    /\ pc = "options_done"
    /\ IF config = NULL
       THEN /\ pc' = "done"
            /\ ret' = NULL
            /\ UNCHANGED <<config, err, refs, wild_frees, json_frees,
                           config_frees>>
       ELSE \E r \in {0, -1} :
               IF r = 0
               THEN /\ pc' = "init"
                    /\ UNCHANGED <<config, err, ret, refs, wild_frees,
                                   json_frees, config_frees>>
               ELSE LET fr == bud_config_free(config[1], refs)
                    IN /\ pc' = "crashed"
                       /\ config' = NULL
                       /\ err' = "kBudErrExePath"
                       /\ refs' = fr.refs
                       /\ wild_frees' = wild_frees + fr.wild
                       /\ json_frees' = json_frees + 1
                       /\ config_frees' = config_frees + 1
                       /\ UNCHANGED ret
    /\ UNCHANGED <<file, is_daemon, is_worker, load_calls, optind, i, fail_step,
                   kBudSSLClientIndex, kBudSSLSNIIndex, ocsp_errors>>
    /\ UNCHANGED sniVars
    /\ UNCHANGED ocspVars
    /\ UNCHANGED defaultsVars
    /\ UNCHANGED npnVars

----------------------------------------------------------------------------
(* bud_config_init, src/config.c:813-939 *)

\* The steps before the context loop, in the order of lines 825-890.
PrologueSteps ==
    <<"frontend_addr", "backend_addr", "ex_index", "workers", "logger",
      "sni_pool", "stapling_pool">>

StepIndex(step) == CHOOSE k \in 1..Len(PrologueSteps) : PrologueSteps[k] = step

\* The mutant of line 870: the pools are created in every process.
StepRuns_in_every_process(cfg, step) ==
    CASE step = "ex_index" -> kBudSSLClientIndex = -1
      [] step = "workers" -> ~cfg.is_worker
      [] step = "sni_pool" -> cfg.sni.enabled
      [] step = "stapling_pool" -> cfg.stapling.enabled
      [] OTHER -> TRUE

\* Whether init runs the step at all.
StepRuns(cfg, step) ==
    CASE step = "ex_index" -> kBudSSLClientIndex = -1
      [] step = "workers" -> ~cfg.is_worker
      [] step = "sni_pool" ->
             (cfg.is_worker \/ cfg.worker_count = 0) /\ cfg.sni.enabled
      [] step = "stapling_pool" ->
             (cfg.is_worker \/ cfg.worker_count = 0) /\ cfg.stapling.enabled
      [] OTHER -> TRUE

\* The step ran to its end: it runs, and init did not fail at or before it.
StepDone(cfg, step, failed) ==
    /\ StepRuns(cfg, step)
    /\ failed = "none" \/ StepIndex(step) < StepIndex(failed)

\* err as each failing step leaves it; the ex-data step jumps to fatal without
\* assigning err (line 846), so err keeps its indeterminate value.
UninitErrors == {bud_ok, "indeterminate"}

PrologueErrors(step) ==
    CASE step = "frontend_addr" -> {"kBudErrPton"}
      [] step = "backend_addr" -> {"kBudErrPton"}
      [] step = "ex_index" -> UninitErrors
      [] step = "workers" -> {"kBudErrNoMem"}
      [] step = "logger" -> {"kBudErrLogger"}
      [] step = "sni_pool" -> {"kBudErrHttpPool"}
      [] step = "stapling_pool" -> {"kBudErrHttpPool"}

\* The indexes SSL_get_ex_new_index may hand out: -1 on failure.
ExIndexes == {<<-1, -1>>, <<-1, 2>>, <<1, -1>>, <<1, 2>>}

\* Lines 822-890: everything before the loop over the contexts.
init_prologue ==
    /\ pc = "init"
    /\ \E failed \in {"none"} \cup {PrologueSteps[k] : k \in 1..Len(PrologueSteps)},
          idx \in ExIndexes :
          LET cfg == config[1]
              ran(step) == StepDone(cfg, step, failed)
          IN /\ failed # "none" => StepRuns(cfg, failed)
             /\ (failed = "ex_index") <=>
                    (StepRuns(cfg, "ex_index") /\ (idx[1] = -1 \/ idx[2] = -1)
                     /\ StepDone(cfg, "backend_addr", failed))
             /\ IF ran("backend_addr") /\ StepRuns(cfg, "ex_index")
                THEN /\ kBudSSLClientIndex' = idx[1]
                     /\ kBudSSLSNIIndex' = idx[2]
                ELSE /\ idx = <<1, 2>>
                     /\ UNCHANGED <<kBudSSLClientIndex, kBudSSLSNIIndex>>
             /\ config' = Some(
                   [cfg EXCEPT
                      !.workers = IF ran("workers") THEN Object("workers")
                                  ELSE @,
                      !.logger = IF ran("logger") THEN Object("logger") ELSE @,
                      !.sni.pool = IF ran("sni_pool") THEN Object("pool") ELSE @,
                      !.stapling.pool = IF ran("stapling_pool")
                                        THEN Object("pool") ELSE @])
             /\ fail_step' = failed
             /\ IF failed = "none"
                THEN /\ pc' = "load_contexts"
                     /\ err' = bud_ok
                ELSE /\ pc' = "fatal"
                     /\ err' \in PrologueErrors(failed)
    /\ i' = 0
    /\ UNCHANGED <<file, is_daemon, is_worker, load_calls, optind, ret,
                   json_frees, config_frees, refs, wild_frees, ocsp_errors>>
    /\ UNCHANGED sniVars
    /\ UNCHANGED ocspVars
    /\ UNCHANGED defaultsVars
    /\ UNCHANGED npnVars

\* The iteration of lines 893-928 leaves for the label fatal.
context_failed(c, rc, e, step) ==
    /\ config' = Some([config[1] EXCEPT !.contexts[i] = c])
    /\ refs' = [refs EXCEPT ![i] = rc]
    /\ err' = e
    /\ fail_step' = step
    /\ pc' = "fatal"
    /\ i' = i

\* The iteration of lines 893-928 reaches its end; after the last one init
\* returns bud_ok() (line 930).
context_loaded(c, rc) ==
    /\ config' = Some([config[1] EXCEPT !.contexts[i] = c])
    /\ refs' = [refs EXCEPT ![i] = rc]
    /\ err' = bud_ok
    /\ fail_step' = fail_step
    /\ i' = i + 1
    /\ pc' = IF i + 1 < config[1].context_count + 1 THEN "load_contexts"
             ELSE "init_returned"

\* The mutant of lines 901-907: every context loads the frontend's files.
context_files_of_frontend(cfg, k) ==
    [cert_file |-> cfg.frontend.cert_file, key_file |-> cfg.frontend.key_file]

\* Lines 901-907: the certificate and key files of contexts[k].
context_files(cfg, k) ==
    IF k = 0
    THEN [cert_file |-> cfg.frontend.cert_file,
          key_file |-> cfg.frontend.key_file]
    ELSE [cert_file |-> cfg.contexts[k].cert_file,
          key_file |-> cfg.contexts[k].key_file]

\* Line 909: the BIO that reads the file at path, together with what reading
\* it yields.
BIO_new_file(path, cin) ==
    [file |-> path, pem_ok |-> cin.pem_ok, aia |-> cin.aia,
     use_ok |-> cin.use_ok, err_queue |-> cin.err_queue, chain |-> cin.chain,
     eof_clean |-> cin.eof_clean, store_init_ok |-> cin.store_init_ok,
     store_issuer |-> cin.store_issuer, ocsp_ok |-> cin.ocsp_ok]

\* Lines 922-924: SSL_CTX_use_PrivateKey_file succeeded.
use_PrivateKey_file(c, key_file) ==
    [c EXCEPT !.ctx = Some([c.ctx[1] EXCEPT !.key = key_file])]

\* Lines 893-928: one iteration of the loop over the contexts.
init_load_context ==
    /\ pc = "load_contexts"
    /\ \E nin \in NewSslCtxInputs :
          LET a == bud_config_new_ssl_ctx(config[1], config[1].contexts[i],
                                          refs[i], nin)
          IN IF ~bud_is_ok(a.err)
             THEN /\ context_failed(a.c, a.rc, a.err, "new_ssl_ctx")
                  /\ UNCHANGED ocsp_errors
             ELSE \E bio_ok \in BOOLEAN :
                IF ~bio_ok
                THEN /\ context_failed(a.c, a.rc, "kBudErrLoadCert", "cert_bio")
                     /\ UNCHANGED ocsp_errors
                ELSE \E cin \in ChainInputs :
                   LET files == context_files(config[1], i)
                       b == bud_context_use_certificate_chain(
                                a.c, a.rc, BIO_new_file(files.cert_file, cin))
                   IN /\ ocsp_errors' = IF b.ocsp_error
                                        THEN ocsp_errors \cup {i}
                                        ELSE ocsp_errors
                      /\ IF b.ret = 0
                         THEN context_failed(b.c, b.rc, "kBudErrParseCert",
                                             "certificate_chain")
                         ELSE \E key_ok \in BOOLEAN :
                            IF key_ok
                            THEN context_loaded(
                                     use_PrivateKey_file(b.c, files.key_file),
                                     b.rc)
                            ELSE context_failed(b.c, b.rc, "kBudErrParseKey",
                                                "private_key")
    /\ UNCHANGED <<file, is_daemon, is_worker, load_calls, optind, ret,
                   json_frees, config_frees, wild_frees, kBudSSLClientIndex,
                   kBudSSLSNIIndex>>
    /\ UNCHANGED sniVars
    /\ UNCHANGED ocspVars
    /\ UNCHANGED defaultsVars
    /\ UNCHANGED npnVars

\* Lines 932-938: bud_context_free on contexts[i], contexts[i - 1], ..,
\* contexts[0], then return err.
RECURSIVE fatal_loop(_, _)
fatal_loop(st, k) ==
    IF k < 0 THEN st
    ELSE LET f == bud_context_free(st.contexts[k], st.refs[k])
         IN fatal_loop([contexts |-> [st.contexts EXCEPT ![k] = f.c],
                        refs |-> [st.refs EXCEPT ![k] = f.rc],
                        wild |-> st.wild + f.wild],
                       k - 1)

init_fatal ==
    /\ pc = "fatal"
    /\ LET st == fatal_loop([contexts |-> config[1].contexts, refs |-> refs,
                             wild |-> 0], i)
       IN /\ config' = Some([config[1] EXCEPT !.contexts = st.contexts])
          /\ refs' = st.refs
          /\ wild_frees' = wild_frees + st.wild
    /\ i' = -1
    /\ pc' = "init_returned"
    /\ UNCHANGED <<file, is_daemon, is_worker, load_calls, optind, err, ret,
                   fail_step, json_frees, config_frees, kBudSSLClientIndex,
                   kBudSSLSNIIndex, ocsp_errors>>
    /\ UNCHANGED sniVars
    /\ UNCHANGED ocspVars
    /\ UNCHANGED defaultsVars
    /\ UNCHANGED npnVars

\* Lines 141-148 of bud_config_cli_load, after bud_config_init has returned.
cli_init_returned ==
    /\ pc = "init_returned"
    /\ IF ~bud_is_ok(err)
       THEN LET fr == bud_config_free(config[1], refs)
            IN /\ config' = Some(fr.config)
               /\ refs' = fr.refs
               /\ wild_frees' = wild_frees + fr.wild
               /\ json_frees' = json_frees + 1
               /\ config_frees' = config_frees + 1
               /\ ret' = NULL
       ELSE /\ ret' = config
            /\ UNCHANGED <<config, refs, wild_frees, json_frees, config_frees>>
    /\ pc' = "done"
    /\ UNCHANGED <<file, is_daemon, is_worker, load_calls, optind, err, i,
                   fail_step, kBudSSLClientIndex, kBudSSLSNIIndex, ocsp_errors>>
    /\ UNCHANGED sniVars
    /\ UNCHANGED ocspVars
    /\ UNCHANGED defaultsVars
    /\ UNCHANGED npnVars

----------------------------------------------------------------------------
(* The main specification: bud_config_cli_load from a loaded configuration *)

\* The most entries of "contexts" in a configuration that is initialised.
MaxLoadedContexts == 1

\* The settings a context of the file may give or omit: npn (an empty array
\* or one protocol), ciphers, ecdh.
ContextSettings ==
    {[npn |-> NULL, ciphers |-> NULL, ecdh |-> NULL],
     [npn |-> Some(<<>>), ciphers |-> Some("context ciphers"), ecdh |-> NULL],
     [npn |-> Some(<<<<115>>>>), ciphers |-> NULL,
      ecdh |-> Some("context curve")]}

\* A context as bud_config_load fills it (lines 303-310): contexts[k] with its
\* files and the settings st.
LoadedContext(k, st) ==
    [ZeroContext EXCEPT !.servername = Some(<<96 + k>>),
                        !.servername_len = 1,
                        !.cert_file = Some([file |-> "cert", context |-> k]),
                        !.key_file = Some([file |-> "key", context |-> k]),
                        !.npn = st.npn,
                        !.ciphers = st.ciphers,
                        !.ecdh = st.ecdh]

InitFrontendNpnArrays == {NULL, Some(<<<<104, 50>>>>)}

\* The frontend as bud_config_load and bud_config_set_defaults leave it: the
\* files and the curve are never NULL (lines 516, 520, 521).
FrontendSettings ==
    [npn : InitFrontendNpnArrays,
     ciphers : {NULL, Some("frontend ciphers")},
     ecdh : {Some("prime256v1")},
     cert_file : {Some([file |-> "cert", context |-> 0])},
     key_file : {Some([file |-> "key", context |-> 0])}]

\* The process kinds: in-process (no workers), master, worker.
ProcessKinds ==
    {[is_worker |-> FALSE, worker_count |-> 0],
     [is_worker |-> FALSE, worker_count |-> 1],
     [is_worker |-> TRUE, worker_count |-> 1]}

LoadedConfig(p, se, st, f, ns) ==
    [json |-> "parsed",
     is_daemon |-> FALSE,
     is_worker |-> p.is_worker,
     worker_count |-> p.worker_count,
     workers |-> NULL,
     logger |-> NULL,
     frontend |-> f,
     sni |-> [enabled |-> se, pool |-> NULL],
     stapling |-> [enabled |-> st, pool |-> NULL],
     context_count |-> Len(ns),
     contexts |-> [k \in 0..Len(ns) |->
                     IF k = 0 THEN ZeroContext ELSE LoadedContext(k, ns[k])]]

\* The configurations that are initialised. bud_config_init reads the process
\* kind and the pool settings before its loop and the contexts in the loop,
\* independently: every process kind and pool setting comes with the default
\* context alone, and every table of contexts with the in-process kind.
LoadedConfigs ==
    {LoadedConfig(p, se, st, f, <<>>) :
        p \in ProcessKinds, se \in BOOLEAN, st \in BOOLEAN,
        f \in {g \in FrontendSettings : g.npn = NULL /\ g.ciphers = NULL}}
    \cup
    {LoadedConfig([is_worker |-> FALSE, worker_count |-> 0], FALSE, FALSE, f, ns) :
        f \in FrontendSettings,
        ns \in UNION {[1..n -> ContextSettings] : n \in 0..MaxLoadedContexts}}

Init ==
    /\ pc = "options_done"
    /\ config \in {NULL} \cup {Some(c) : c \in LoadedConfigs}
    /\ refs = IF config = NULL THEN <<>>
              ELSE [k \in 0..config[1].context_count |-> ZeroRefs]
    /\ file = NULL
    /\ is_daemon = FALSE
    /\ is_worker = IF config = NULL THEN FALSE ELSE config[1].is_worker
    /\ load_calls = IF config = NULL THEN 0 ELSE 1
    /\ optind = 1
    /\ err = bud_ok
    /\ ret = NULL
    /\ i = 0
    /\ fail_step = "none"
    /\ json_frees = 0
    /\ config_frees = 0
    /\ wild_frees = 0
    /\ ocsp_errors = {}
    /\ kBudSSLClientIndex = -1
    /\ kBudSSLSNIIndex = -1
    /\ IdleSni
    /\ IdleOcsp
    /\ IdleDefaults
    /\ IdleNpn

Next ==
    \/ cli_exepath
    \/ init_prologue
    \/ init_load_context
    \/ init_fatal
    \/ cli_init_returned

Spec == Init /\ [][Next]_vars

----------------------------------------------------------------------------
(* bud_context_get_ocsp_id, src/config.c:705-742 *)

\* An OCSP_CERTID, with the bytes i2d_OCSP_CERTID writes for it.
OCSP_CERTID(der) == Some([kind |-> "OCSP_CERTID", der |-> der])

i2d_OCSP_CERTID(id) == id.der

\* bud_base64_encoded_size and bud_base64_encode (lines 722, 731) are defined
\* outside config.c: four characters stand for every three bytes, and the text
\* is a function of the bytes alone.
bud_base64_encoded_size(encoded_len) == ((encoded_len + 2) \div 3) * 4

bud_base64_encode(encoded) == [base64_of |-> encoded]

\* The mutant of lines 718-719: the cached key is not looked at.
get_ocsp_id_uncached(c, rc, in) ==
    IF c.ocsp_id = NULL
    THEN [c |-> c, rc |-> rc, key |-> NULL, size |-> NULL, encoded |-> FALSE]
    ELSE IF ~in.encoded_ok \/ ~in.base64_ok
    THEN [c |-> c, rc |-> rc, key |-> c.ocsp_der_id,
          size |-> Some(c.ocsp_der_id_len), encoded |-> FALSE]
    ELSE LET encoded == i2d_OCSP_CERTID(c.ocsp_id[1])
         IN [c |-> [c EXCEPT
                      !.ocsp_der_id = HeapBuffer(bud_base64_encode(encoded)),
                      !.ocsp_der_id_len = bud_base64_encoded_size(Len(encoded))],
             rc |-> [rc EXCEPT !.ocsp_der_id = @ + 1],
             key |-> HeapBuffer(bud_base64_encode(encoded)),
             size |-> Some(bud_base64_encoded_size(Len(encoded))),
             encoded |-> TRUE]

\* The whole function. in: the outcomes of the two mallocs (lines 723-724).
\* The result: the context, its reference counts, the returned pointer, *size
\* (NULL when the function does not write it) and whether it encoded.
get_ocsp_id(c, rc, in) ==
    IF c.ocsp_id = NULL
    THEN [c |-> c, rc |-> rc, key |-> NULL, size |-> NULL, encoded |-> FALSE]
    ELSE IF c.ocsp_der_id # NULL \/ ~in.encoded_ok \/ ~in.base64_ok
    THEN [c |-> c, rc |-> rc, key |-> c.ocsp_der_id,
          size |-> Some(c.ocsp_der_id_len), encoded |-> FALSE]
    ELSE LET encoded == i2d_OCSP_CERTID(c.ocsp_id[1])
         IN [c |-> [c EXCEPT
                      !.ocsp_der_id = HeapBuffer(bud_base64_encode(encoded)),
                      !.ocsp_der_id_len = bud_base64_encoded_size(Len(encoded))],
             rc |-> [rc EXCEPT !.ocsp_der_id = @ + 1],
             key |-> HeapBuffer(bud_base64_encode(encoded)),
             size |-> Some(bud_base64_encoded_size(Len(encoded))),
             encoded |-> TRUE]

\* The most calls made for one context.
MaxOcspCalls == 3

\* One call for contexts[k] of an initialised config.
bud_context_get_ocsp_id ==
    /\ pc = "serving"
    /\ \E k \in 0..config[1].context_count,
          in \in [encoded_ok : BOOLEAN, base64_ok : BOOLEAN] :
          LET r == get_ocsp_id(config[1].contexts[k], refs[k], in)
          IN /\ ocsp_calls[k] < MaxOcspCalls
             /\ config[1].contexts[k].ocsp_id = NULL \/ ~in.encoded_ok
                    => in.base64_ok
             /\ config' = Some([config[1] EXCEPT !.contexts[k] = r.c])
             /\ refs' = [refs EXCEPT ![k] = r.rc]
             /\ ocsp_ctx' = Some(k)
             /\ ocsp_key' = r.key
             /\ ocsp_size' = IF r.size = NULL THEN ocsp_size ELSE r.size
             /\ ocsp_calls' = [ocsp_calls EXCEPT ![k] = @ + 1]
             /\ ocsp_encodes' = [ocsp_encodes EXCEPT
                                   ![k] = IF r.encoded THEN @ + 1 ELSE @]
    /\ UNCHANGED <<file, is_daemon, is_worker, load_calls, optind, pc, err, ret,
                   i, fail_step, json_frees, config_frees, kBudSSLClientIndex,
                   kBudSSLSNIIndex, wild_frees, ocsp_errors>>
    /\ UNCHANGED sniVars
    /\ UNCHANGED npnVars
    /\ UNCHANGED defaultsVars

\* The most bytes of an encoded OCSP_CERTID.
MaxDerLen == 3

DerEncodings == {[j \in 1..n |-> 47 + j] : n \in 1..MaxDerLen}

\* contexts[k] after a successful bud_config_init: with an OCSP id when the
\* issuer of its certificate was found, without one otherwise.
ServingContext(cfg, k, id) ==
    [cfg.contexts[k] EXCEPT
       !.ctx = Some([servername_cb |-> cfg.context_count # 0,
                     next_protos_advertised_cb |-> FALSE,
                     status_cb |-> TRUE,
                     ecdh |-> ssl_ctx_ecdh(cfg, cfg.contexts[k]),
                     ciphers |-> ssl_ctx_ciphers(cfg, cfg.contexts[k]),
                     cert |-> TRUE,
                     key |-> context_files(cfg, k).key_file,
                     extra_issuer |-> FALSE]),
       !.cert = Certificate(context_files(cfg, k).cert_file, TRUE),
       !.issuer = IF id = NULL THEN NULL ELSE Object("X509"),
       !.ocsp_id = id]

ServingRefs(id) ==
    [ZeroRefs EXCEPT !.ssl_ctx = 1, !.cert = 2,
                     !.issuer = IF id = NULL THEN 0 ELSE 1,
                     !.ocsp_id = IF id = NULL THEN 0 ELSE 1]

\* The in-process config without npn and with n configured contexts.
ServingConfig(n) ==
    LoadedConfig([is_worker |-> FALSE, worker_count |-> 0], FALSE, FALSE,
                 [npn |-> NULL, ciphers |-> NULL, ecdh |-> Some("prime256v1"),
                  cert_file |-> Some([file |-> "cert", context |-> 0]),
                  key_file |-> Some([file |-> "key", context |-> 0])],
                 [k \in 1..n |-> [npn |-> NULL, ciphers |-> NULL, ecdh |-> NULL]])

InitOcsp ==
    /\ pc = "serving"
    /\ \E n \in 0..MaxLoadedContexts :
          \E ids \in [0..n -> {NULL} \cup {OCSP_CERTID(d) : d \in DerEncodings}] :
             /\ config = Some([ServingConfig(n) EXCEPT
                                 !.workers = Object("workers"),
                                 !.logger = Object("logger"),
                                 !.contexts =
                                     [k \in 0..n |->
                                        ServingContext(ServingConfig(n), k,
                                                       ids[k])]])
             /\ refs = [k \in 0..n |-> ServingRefs(ids[k])]
             /\ ocsp_calls = [k \in 0..n |-> 0]
             /\ ocsp_encodes = [k \in 0..n |-> 0]
    /\ ret = config
    /\ ocsp_ctx = NULL
    /\ ocsp_key = NULL
    /\ ocsp_size = NULL
    /\ file = NULL
    /\ is_daemon = FALSE
    /\ is_worker = FALSE
    /\ load_calls = 1
    /\ optind = 1
    /\ err = bud_ok
    /\ i = config[1].context_count + 1
    /\ fail_step = "none"
    /\ json_frees = 0
    /\ config_frees = 0
    /\ wild_frees = 0
    /\ ocsp_errors = {}
    /\ kBudSSLClientIndex = 1
    /\ kBudSSLSNIIndex = 2
    /\ IdleSni
    /\ IdleNpn
    /\ IdleDefaults

NextOcsp == bud_context_get_ocsp_id

SpecOcsp == InitOcsp /\ [][NextOcsp]_vars

----------------------------------------------------------------------------
(* The settings of bud_config_load and bud_config_set_defaults,           *)
(* src/config.c:210-284 and 499-534                                        *)

\* json_object_get_number: the number under a key, 0 when the key is absent.
json_object_get_number(value) == IF value = NULL THEN 0 ELSE value[1]

\* Lines 214, 217, 258-270, 278-280: a field that starts at -1 and is
\* assigned only when the key is present.
number_or_unset(value) == IF value = NULL THEN -1 ELSE value[1]

\* The cast of lines 243 and 276.
uint16_t(n) == n % 65536

\* Lines 210-284: the fields of the calloc'ed config after the file has been
\* read. doc: workers, restart_timeout, frontend and backend, each NULL when
\* the key is absent.
read_settings(doc) ==
    [worker_count |-> number_or_unset(doc.workers),
     restart_timeout |-> number_or_unset(doc.restart_timeout),
     frontend |->
        IF doc.frontend = NULL
        THEN [port |-> 0, keepalive |-> -1, reneg_window |-> 0,
              reneg_limit |-> 0, cert_file |-> NULL, key_file |-> NULL]
        ELSE [port |-> uint16_t(json_object_get_number(doc.frontend[1].port)),
              keepalive |-> number_or_unset(doc.frontend[1].keepalive),
              reneg_window |->
                  json_object_get_number(doc.frontend[1].reneg_window),
              reneg_limit |->
                  json_object_get_number(doc.frontend[1].reneg_limit),
              cert_file |-> doc.frontend[1].cert,
              key_file |-> doc.frontend[1].key],
     backend |->
        IF doc.backend = NULL
        THEN [port |-> 0, keepalive |-> -1]
        ELSE [port |-> uint16_t(json_object_get_number(doc.backend[1].port)),
              keepalive |-> number_or_unset(doc.backend[1].keepalive)]]

\* The macro DEFAULT, lines 499-503.
DEFAULT(param, null, value) == IF param = null THEN value ELSE param

\* Lines 505-534, for the settings read above.
bud_config_set_defaults(cfg) ==
    [worker_count |-> DEFAULT(cfg.worker_count, -1, 1),
     restart_timeout |-> DEFAULT(cfg.restart_timeout, -1, 250),
     frontend |->
        [port |-> DEFAULT(cfg.frontend.port, 0, 1443),
         keepalive |-> DEFAULT(cfg.frontend.keepalive, -1, 3600),
         cert_file |-> DEFAULT(cfg.frontend.cert_file, NULL,
                               Some("keys/cert.pem")),
         key_file |-> DEFAULT(cfg.frontend.key_file, NULL,
                              Some("keys/key.pem")),
         reneg_window |-> DEFAULT(cfg.frontend.reneg_window, 0, 600),
         reneg_limit |-> DEFAULT(cfg.frontend.reneg_limit, 0, 3)],
     backend |->
        [port |-> DEFAULT(cfg.backend.port, 0, 8000),
         keepalive |-> DEFAULT(cfg.backend.keepalive, -1, 3600)]]

\* bud_config_load for a file that parses and has no contexts: the settings
\* of the config it returns (line 318 calls bud_config_set_defaults).
load_settings ==
    /\ settings_file # NULL
    /\ settings = NULL
    /\ settings' = Some(bud_config_set_defaults(read_settings(settings_file[1])))
    /\ UNCHANGED settings_file
    /\ UNCHANGED cliVars
    /\ UNCHANGED sniVars
    /\ UNCHANGED npnVars
    /\ UNCHANGED ocspVars

\* What a file may give for a setting: nothing, or one of the values.
Given(values) == {NULL} \cup {Some(v) : v \in values}

SettingsFiles ==
    [workers : Given({0, 2}),
     restart_timeout : Given({0, 100}),
     frontend : Given([port : Given({0, 443}),
                       keepalive : Given({0, 60}),
                       reneg_window : Given({0, 300}),
                       reneg_limit : Given({0, 5}),
                       cert : Given({"own/cert.pem"}),
                       key : Given({"own/key.pem"})]),
     backend : Given([port : Given({0, 8080}),
                      keepalive : Given({0, 60})])]

InitDefaults ==
    /\ settings_file \in {Some(doc) : doc \in SettingsFiles}
    /\ settings = NULL
    /\ pc = "load"
    /\ config = NULL
    /\ IdleCli
    /\ IdleSni
    /\ IdleNpn
    /\ IdleOcsp

NextDefaults == load_settings

SpecDefaults == InitDefaults /\ [][NextDefaults]_vars

----------------------------------------------------------------------------
(* Properties of context selection and of the SNI hook (SpecSni) *)

\* The entry's servername has the length of the query and equals it ignoring
\* case (an absent servername has length 0, as line 305 stores it).
NameMatches(ctx, q) ==
    /\ servername_len_of(ctx.servername) = Len(q)
    /\ \A j \in 1..Len(q) : tolower(Str(ctx.servername)[j]) = tolower(q[j])

MatchingEntries(cfg, q) ==
    {k \in 1..cfg.context_count : NameMatches(cfg.contexts[k], q)}

\* The hook ran for a session that named a server and has no override.
LocalLookupDone == hook_calls > 0 /\ servername # NULL /\ sni_slot = NULL

\* C1: whenever some configured context matches the queried servername, the
\* lookup returns a matching context; the default context (index 0) is
\* returned only when no configured entry matches.
C1_MatchingContextSelected ==
    LocalLookupDone =>
        LET M == MatchingEntries(config[1], Str(servername))
        IN /\ selected # NULL
           /\ M # {} => selected[1] \in M
           /\ M = {} => selected[1] = 0

\* C2: the lookup is total and sound: it always returns exactly one context
\* of the table, which is the default context (index 0) or a configured entry
\* whose servername matches the query; never an entry with another name.
C2_SelectTotalAndSound ==
    LocalLookupDone =>
        /\ selected # NULL
        /\ selected[1] \in 0..config[1].context_count
        /\ selected[1] # 0 =>
              NameMatches(config[1].contexts[selected[1]], Str(servername))

\* C2 witness: "AB" is found at index 2 after an entry of another length.
C2_Witness ==
    /\ LocalLookupDone
    /\ servername = Some(<<65, 66>>)
    /\ config[1].context_count = 2
    /\ config[1].contexts[1].servername = Some(<<97>>)
    /\ config[1].contexts[2].servername = Some(<<97, 98>>)
    /\ selected = Some(2)

\* C3: when the ClientHello names a server and the override slot is
\* populated, the hook adopts the override context without consulting the
\* table; only when the slot is empty is the table's answer adopted.
C3_OverrideBeforeTable ==
    [][(hook_calls' = hook_calls + 1 /\ servername # NULL) =>
          IF sni_slot # NULL
          THEN /\ ssl_ctx' = sni_slot[1].ctx
               /\ lookups' = lookups
               /\ selected' = selected
          ELSE /\ lookups' = lookups + 1
               /\ selected' # NULL
               /\ ssl_ctx' = config[1].contexts[selected'[1]].ctx]_vars

\* C3 witness: the override was adopted although the table holds a match.
C3_Witness ==
    /\ hook_calls > 0
    /\ servername # NULL
    /\ sni_slot # NULL
    /\ MatchingEntries(config[1], Str(servername)) # {}
    /\ ssl_ctx = sni_slot[1].ctx
    /\ lookups = 0

\* C4: without a server_name the hook leaves the session's context as it is
\* (the default stays selected), consults nothing and reports success.
C4_NoServernameKeepsContext ==
    [][(hook_calls' = hook_calls + 1 /\ servername = NULL) =>
          /\ ssl_ctx' = ssl_ctx
          /\ ssl_ctx' = config[1].contexts[0].ctx
          /\ lookups' = lookups
          /\ selected' = selected
          /\ hook_ret' = Some(SSL_TLSEXT_ERR_OK)]_vars

\* C4 witness: the hook ran without a servername while the slot was populated
\* and the table holds an entry with an empty name.
C4_Witness ==
    /\ hook_calls > 0
    /\ servername = NULL
    /\ sni_slot # NULL
    /\ MatchingEntries(config[1], <<>>) # {}
    /\ ssl_ctx = config[1].contexts[0].ctx
    /\ hook_ret = Some(SSL_TLSEXT_ERR_OK)

----------------------------------------------------------------------------
(* Properties of the NPN encoding (SpecNpn) *)

\* Decoding as the wire format demands: one length octet, then that many
\* bytes, repeated; ok is FALSE when a length runs past the end of the line.
RECURSIVE DecodeNpn(_, _)
DecodeNpn(line, pos) ==
    IF pos > Len(line) THEN [ok |-> TRUE, tokens |-> <<>>]
    ELSE LET n == line[pos]
         IN IF pos + n > Len(line) THEN [ok |-> FALSE, tokens |-> <<>>]
            ELSE LET rest == DecodeNpn(line, pos + n + 1)
                 IN [ok |-> rest.ok,
                     tokens |-> <<SubSeq(line, pos + 1, pos + n)>> \o rest.tokens]

\* The array the call encodes: its argument, else the frontend's.
EffectiveNpn == IF npn = NULL THEN config[1].frontend.npn ELSE npn

\* The bytes the advertised buffer holds (none are read when the length is 0).
NpnLineBytes ==
    IF npn_line # NULL /\ npn_line[1].kind = "heap" THEN npn_line[1].bytes
    ELSE <<>>

\* C5: the encoding round-trips: decoding npn_line yields the configured
\* tokens in order, and the reported length is the number of bytes written.
C5_NpnRoundTrip ==
    (pc = "encode_npn_done" /\ npn_err = "ok" /\ EffectiveNpn # NULL) =>
        /\ npn_line_len = Len(NpnLineBytes)
        /\ DecodeNpn(NpnLineBytes, 1) = [ok |-> TRUE, tokens |-> EffectiveNpn[1]]

----------------------------------------------------------------------------
(* Properties of bud_config_load (SpecLoad) *)

\* bud_config_load has returned a config.
LoadSucceeded == load_calls > 0 /\ config # NULL

\* C6: after a successful load every configured context (1..context_count)
\* has a non-empty servername and no two of them share a servername.
C6_ServernamesUniqueNonEmpty ==
    LoadSucceeded =>
        LET c == config[1]
        IN /\ \A k \in 1..c.context_count :
                 /\ c.contexts[k].servername # NULL
                 /\ c.contexts[k].servername_len > 0
           /\ \A j, k \in 1..c.context_count :
                 j # k => c.contexts[j].servername # c.contexts[k].servername

NonString(arr) ==
    arr # NULL /\ \E k \in 1..Len(arr[1]) : arr[1][k].type # "JSONString"

\* The first fault of the document that loading meets is a non-string element
\* of the frontend npn array or of the npn array of some contexts[] object.
FirstFaultIsNpn(doc) ==
    /\ doc.parsed
    /\ doc.root_object
    /\ \/ doc.frontend # NULL /\ NonString(doc.frontend[1].npn)
       \/ /\ doc.contexts # NULL
          /\ \E k \in 1..Len(doc.contexts[1]) :
                /\ doc.contexts[1][k].object
                /\ NonString(doc.contexts[1][k].npn)
                /\ \A j \in 1..(k - 1) :
                      /\ doc.contexts[1][j].object
                      /\ ~NonString(doc.contexts[1][j].npn)

----------------------------------------------------------------------------
(* Properties of bud_config_init and of the failure sequence *)

\* bud_config_cli_load has returned after bud_config_init took the jump to
\* its label fatal from the step fail_step.
InitFailed == pc = "done" /\ fail_step # "none"

\* C7: whenever a step of bud_config_init fails (address parse, ex-data
\* index, workers, logger, pools, TLS context, certificate or key), init
\* returns a non-ok error and bud_config_cli_load returns NULL; it does not
\* return a config whose contexts init has already released.
C7_InitFailureReported ==
    InitFailed => ret = NULL /\ ~bud_is_ok(err)

\* C8: when OCSP_cert_to_id fails for a context whose issuer was found,
\* bud_config_init fails: bud_config_cli_load never returns a config for
\* which the OCSP id of some context could not be constructed.
C8_OcspIdFailureIsFatal ==
    (pc = "done" /\ ocsp_errors # {}) => ret = NULL /\ ~bud_is_ok(err)

\* The objects of the contexts that are live (reference count above zero)
\* and those released more often than they were acquired.
Leaked == {kr \in {<<k, r>> : k \in DOMAIN refs, r \in DOMAIN ZeroRefs} :
              refs[kr[1]][kr[2]] > 0}
OverReleased == {kr \in {<<k, r>> : k \in DOMAIN refs, r \in DOMAIN ZeroRefs} :
                    refs[kr[1]][kr[2]] < 0}

\* C10: when bud_config_init fails, the cleanup at its label fatal followed
\* by the bud_config_free of bud_config_cli_load releases every resource of
\* every context exactly once: nothing is released twice, nothing invalid is
\* handed to free(), and nothing stays live at the end.
C10_ReleasedExactlyOnce ==
    /\ OverReleased = {}
    /\ wild_frees = 0
    /\ (InitFailed /\ ~bud_is_ok(err)) => Leaked = {}

----------------------------------------------------------------------------
(* The scan order of bud_config_select_context *)

\* The configured entries whose servername has the length of the query.
SameLengthEntries(cfg, q) ==
    {k \in 1..cfg.context_count :
        servername_len_of(cfg.contexts[k].servername) = Len(q)}

FirstOf(S) == CHOOSE k \in S : \A j \in S : k <= j

\* C16: the scan goes through the configured contexts in configuration
\* order, skips the entries whose servername length differs from the query's
\* and stops at the first entry of equal length: it returns that entry if
\* the names are equal ignoring case, and the default context (index 0)
\* otherwise, whatever the later entries are.
C16_ScanStopsAtFirstEqualLength ==
    LocalLookupDone =>
        LET q == Str(servername)
            S == SameLengthEntries(config[1], q)
        IN /\ selected # NULL
           /\ S = {} => selected[1] = 0
           /\ S # {} =>
                 selected[1] =
                     IF NameMatches(config[1].contexts[FirstOf(S)], q)
                     THEN FirstOf(S) ELSE 0

\* C16 witness: the table is "A", "b" and the query is "b"; the scan stops at
\* "A", of equal length, and returns the default context although the later
\* entry matches.
C16_Witness ==
    /\ LocalLookupDone
    /\ config[1].context_count = 2
    /\ config[1].contexts[1].servername = Some(<<65>>)
    /\ config[1].contexts[2].servername = Some(<<98>>)
    /\ servername = Some(<<98>>)
    /\ selected = Some(0)

----------------------------------------------------------------------------
(* The executable path step of bud_config_cli_load *)

\* uv_exepath failed: bud_config_cli_load freed the loaded config, set it to
\* NULL and stored the executable-path error (lines 134-138).
ExePathFailed == config = NULL /\ config_frees > 0 /\ err = "kBudErrExePath"

\* C17: once the config has been freed because the executable path could not
\* be obtained, it is not handed to bud_config_init or dereferenced again:
\* bud_config_cli_load returns NULL with the executable-path error set.
C17_FreedConfigNotInitialised ==
    ExePathFailed => pc = "done" /\ ret = NULL

----------------------------------------------------------------------------
(* Properties of the contexts after a successful bud_config_init *)

\* bud_config_init ran through every step and returned bud_ok(), and
\* bud_config_cli_load returned the config.
InitSucceeded == pc = "done" /\ ret # NULL /\ fail_step = "none"

\* C13: after a successful bud_config_init every TLS context, the default
\* one and each configured one, has the SNI hook and the status-request hook
\* installed, whatever context_count is (0 included) and whether or not the
\* SNI pool is enabled.
C13_HooksInstalled ==
    InitSucceeded =>
        \A k \in 0..ret[1].context_count :
            /\ ret[1].contexts[k].ctx # NULL
            /\ ret[1].contexts[k].ctx[1].servername_cb
            /\ ret[1].contexts[k].ctx[1].status_cb

----------------------------------------------------------------------------
(* Ownership of the HTTP pools *)

\* The process may own HTTP pools: a worker, or a master that runs in-process.
OwnsPools(cfg) == cfg.is_worker \/ cfg.worker_count = 0

\* C14: in every state the SNI pool and the stapling pool of a config are
\* non-null only if the pool is enabled and the process is a worker or runs
\* in-process (worker_count = 0), so a master with workers never owns a
\* pool; and once bud_config_finalize has run (it runs at the head of
\* bud_config_free) both pools are null.
C14_PoolsOwnedByWorker ==
    config # NULL =>
        /\ config[1].sni.pool # NULL =>
              config[1].sni.enabled /\ OwnsPools(config[1])
        /\ config[1].stapling.pool # NULL =>
              config[1].stapling.enabled /\ OwnsPools(config[1])
        /\ config_frees > 0 =>
              config[1].sni.pool = NULL /\ config[1].stapling.pool = NULL

\* C14 witness: a worker whose init succeeded owns both pools.
C14_Witness ==
    /\ InitSucceeded
    /\ ret[1].is_worker
    /\ ret[1].worker_count = 1
    /\ ret[1].sni.pool # NULL
    /\ ret[1].stapling.pool # NULL

----------------------------------------------------------------------------
(* The OCSP id of the contexts *)

\* C11: after a successful bud_config_init every context, default or
\* configured, whose certificate has an AIA (OCSP) extension has a non-null
\* ocsp_id.
C11_AiaHasOcspId ==
    InitSucceeded =>
        \A k \in 0..ret[1].context_count :
            ret[1].contexts[k].cert[1].aia =>
                ret[1].contexts[k].ocsp_id # NULL

----------------------------------------------------------------------------
(* The default context and the configured contexts after init *)

\* The setting a context uses: its own where the file gives it, the
\* frontend's where it is omitted (the default context has none of its own).
OwnOrFrontend(own, frontend) == IF own # NULL THEN own ELSE frontend

\* The context advertises the protocols of arr: nothing without an array; the
\* encoded line of a non-empty array; a line of length 0 for an empty one.
AdvertisesNpn(c, arr) ==
    IF arr = NULL
    THEN c.npn_line = NULL /\ ~c.ctx[1].next_protos_advertised_cb
    ELSE /\ c.npn_line_len = npn_storage(arr[1], 1)
         /\ arr[1] # <<>> =>
               /\ c.npn_line = HeapBuffer(npn_fill(arr[1], 1))
               /\ c.ctx[1].next_protos_advertised_cb

\* C18: after a successful bud_config_init the default context (index 0) is
\* a fully constructed entry, with a TLS handle that holds the frontend's
\* certificate and key and uses the frontend's ciphers, curve and npn; and
\* every configured context has a TLS handle that holds its own certificate
\* and key and uses its own ciphers, curve and npn where the file gives them
\* and the frontend's where it omits them.
C18_DefaultContextFirstClass ==
    InitSucceeded =>
        \A k \in 0..ret[1].context_count :
            LET c == ret[1].contexts[k]
                f == ret[1].frontend
            IN /\ c.ctx # NULL
               /\ c.ctx[1].cert
               /\ c.cert # NULL
               /\ c.cert[1].file = IF k = 0 THEN f.cert_file ELSE c.cert_file
               /\ c.ctx[1].key = IF k = 0 THEN f.key_file ELSE c.key_file
               /\ c.ctx[1].key # NULL
               /\ c.ctx[1].ciphers = OwnOrFrontend(c.ciphers, f.ciphers)
               /\ c.ctx[1].ecdh = OwnOrFrontend(c.ecdh, f.ecdh)
               /\ AdvertisesNpn(c, OwnOrFrontend(c.npn, f.npn))

\* C18 witness: init succeeded for a frontend with ciphers and npn and one
\* configured context that gives its own ciphers and omits the curve; the
\* default context holds the frontend's certificate and advertises the
\* frontend's npn, the configured one holds its own certificate and uses its
\* own ciphers and the frontend's curve.
C18_Witness ==
    /\ InitSucceeded
    /\ ret[1].context_count = 1
    /\ ret[1].frontend.ciphers = Some("frontend ciphers")
    /\ ret[1].frontend.npn # NULL
    /\ ret[1].contexts[0].ctx[1].ciphers = Some("frontend ciphers")
    /\ ret[1].contexts[0].cert[1].file = Some([file |-> "cert", context |-> 0])
    /\ ret[1].contexts[0].npn_line = HeapBuffer(<<2, 104, 50>>)
    /\ ret[1].contexts[1].ctx[1].ciphers = Some("context ciphers")
    /\ ret[1].contexts[1].ctx[1].ecdh = Some("prime256v1")
    /\ ret[1].contexts[1].cert[1].file = Some([file |-> "cert", context |-> 1])
    /\ ret[1].contexts[1].ctx[1].key = Some([file |-> "key", context |-> 1])

----------------------------------------------------------------------------
(* The cached OCSP key *)

\* C12: the OCSP key of a context is derived once. A call for a context with
\* a null ocsp_id returns NULL and stores nothing. The first call that
\* succeeds for a context with an ocsp_id encodes the id and stores the key
\* and its length on the context; every later call for that context returns
\* the stored key and length and encodes nothing. No call touches another
\* context.
C12_OcspKeyOneShot ==
    [][ocsp_calls' # ocsp_calls =>
          LET k == ocsp_ctx'[1]
              c == config[1].contexts[k]
              d == config'[1].contexts[k]
          IN /\ \A j \in 0..config[1].context_count :
                   j # k => /\ config'[1].contexts[j] = config[1].contexts[j]
                            /\ ocsp_encodes'[j] = ocsp_encodes[j]
             /\ ocsp_encodes'[k] <= 1
             /\ c.ocsp_id = NULL =>
                   /\ ocsp_key' = NULL
                   /\ d = c
                   /\ ocsp_encodes'[k] = 0
             /\ c.ocsp_der_id # NULL =>
                   /\ ocsp_key' = c.ocsp_der_id
                   /\ ocsp_size' = Some(c.ocsp_der_id_len)
                   /\ d = c
                   /\ ocsp_encodes'[k] = ocsp_encodes[k]
             /\ (c.ocsp_id # NULL /\ c.ocsp_der_id = NULL /\ ocsp_key' # NULL) =>
                   /\ ocsp_encodes'[k] = 1
                   /\ ocsp_key' =
                          HeapBuffer(bud_base64_encode(c.ocsp_id[1].der))
                   /\ d.ocsp_der_id = ocsp_key'
                   /\ ocsp_size' = Some(d.ocsp_der_id_len)
                   /\ d.ocsp_id = c.ocsp_id
             /\ (c.ocsp_id # NULL /\ c.ocsp_der_id = NULL /\ ocsp_key' = NULL) =>
                   d = c /\ ocsp_encodes'[k] = 0
      ]_vars

\* C12 witness: the configured context was asked three times and returned
\* its key, which was encoded once; the default context has no OCSP id.
C12_Witness ==
    /\ pc = "serving"
    /\ config[1].context_count = 1
    /\ ocsp_ctx = Some(1)
    /\ ocsp_calls[1] = 3
    /\ ocsp_encodes[1] = 1
    /\ refs[1].ocsp_der_id = 1
    /\ config[1].contexts[1].ocsp_id = OCSP_CERTID(<<48, 49, 50>>)
    /\ ocsp_key = config[1].contexts[1].ocsp_der_id
    /\ ocsp_key = HeapBuffer(bud_base64_encode(<<48, 49, 50>>))
    /\ ocsp_size = Some(4)
    /\ config[1].contexts[0].ocsp_id = NULL
    /\ ocsp_calls[0] = 1

----------------------------------------------------------------------------
(* The settings after bud_config_load *)

\* The value a setting must have: the file's where the file gives one, the
\* default otherwise.
GivenOr(value, default) == IF value = NULL THEN default ELSE value[1]

\* The key of an object of the file, NULL when the object is absent.
Key(object, key) == IF object = NULL THEN NULL ELSE object[1][key]

\* C15: after bud_config_load every setting the file gives has the value
\* given there (0 included, for workers, ports, reneg_window and
\* reneg_limit) and every setting it omits has its default: workers 1,
\* restart_timeout 250, frontend port 1443, backend port 8000, keepalive
\* 3600, reneg_window 600, reneg_limit 3, cert keys/cert.pem, key
\* keys/key.pem.
C15_SettingsKeptOrDefaulted ==
    settings # NULL =>
        LET doc == settings_file[1]
            cfg == settings[1]
        IN /\ cfg.worker_count = GivenOr(doc.workers, 1)
           /\ cfg.restart_timeout = GivenOr(doc.restart_timeout, 250)
           /\ cfg.frontend.port = GivenOr(Key(doc.frontend, "port"), 1443)
           /\ cfg.frontend.keepalive =
                  GivenOr(Key(doc.frontend, "keepalive"), 3600)
           /\ cfg.frontend.reneg_window =
                  GivenOr(Key(doc.frontend, "reneg_window"), 600)
           /\ cfg.frontend.reneg_limit =
                  GivenOr(Key(doc.frontend, "reneg_limit"), 3)
           /\ cfg.frontend.cert_file =
                  Some(GivenOr(Key(doc.frontend, "cert"), "keys/cert.pem"))
           /\ cfg.frontend.key_file =
                  Some(GivenOr(Key(doc.frontend, "key"), "keys/key.pem"))
           /\ cfg.backend.port = GivenOr(Key(doc.backend, "port"), 8000)
           /\ cfg.backend.keepalive =
                  GivenOr(Key(doc.backend, "keepalive"), 3600)

====
